---- MODULE Spec2Model ----
(***************************************************************************)
(* Model of prefect.runtimes.make_cli: the MakeCLI task registry           *)
(* (MakeCLI.__init__, MakeCLI.task, MakeCLI.run) and the click command     *)
(* `run` that resolves the requested tasks into calls on the flow.         *)
(*                                                                         *)
(* A task entity (the FunctionTask built by MakeCLI.task) is the number of *)
(* the registration that built it: entities are compared by identity.      *)
(* Python lists are objects of a heap, so that two tasks registered with   *)
(* the same `depends` list share one object.                               *)
(***************************************************************************)
EXTENDS Integers, Sequences, FiniteSets, TLC

\* ------------------------------------------------------------------ bounds
\* The function names a script may register and name in `depends` or on the
\* command line. Names are interchangeable, so a script's functions are named
\* in this order: a function with a new name takes the first unused one.
NameSeq == <<"a", "b", "c">>
Names == {NameSeq[i] : i \in DOMAIN NameSeq}

\* Number of calls of MakeCLI.task in one script.
MaxReg == 3

\* Length of a `depends` list literal written by the caller.
MaxDepLen == 1

VARIABLES
    implied_order,    \* self.implied_order
    argv_tasks,       \* the positional task names on the command line
    no_dependencies,  \* the --no-dependencies flag on the command line
    tasks,            \* self.tasks: insertion-ordered dict name -> entity
    dependencies,     \* self.dependencies: entity -> list object (heap address)
    heap,             \* the list objects: contents, and whether the caller made it
    task_order,       \* self.task_order
    depends_arg,      \* history: the value of `depends` at each call of MakeCLI.task
    flow,             \* the calls made on self.flow since construction
    frame,            \* the local state of the running `run` command
    phase,            \* the process: "script", "explicit", "atexit", "terminated"
    passes            \* number of times the `run` command was entered

vars == <<implied_order, argv_tasks, no_dependencies, tasks, dependencies, heap,
          task_order, depends_arg, flow, frame, phase, passes>>

registry == <<implied_order, tasks, dependencies, heap, task_order, depends_arg>>
cmdline == <<argv_tasks, no_dependencies>>

\* ------------------------------------------------------------ the registry
\* The `depends` list literals a caller may write.
DepLists == UNION {[1..k -> Names] : k \in 0..MaxDepLen}

\* obj.tasks.keys()
Keys(tk) == {tk[i].name : i \in DOMAIN tk}

\* obj.tasks[name]
Lookup(tk, name) == tk[CHOOSE i \in DOMAIN tk : tk[i].name = name].t

\* `self.tasks.setdefault(name, t)`: the first registration of a name stays.
DictSetKeepsFirst(tk, name, t) ==
    IF name \in Keys(tk) THEN tk ELSE Append(tk, [name |-> name, t |-> t])

\* self.tasks[name] = t: a dict keeps the position of a key it already holds.
DictSet(tk, name, t) ==
    IF name \in Keys(tk)
    THEN [i \in DOMAIN tk |-> IF tk[i].name = name THEN [name |-> name, t |-> t] ELSE tk[i]]
    ELSE Append(tk, [name |-> name, t |-> t])

\* obj.dependencies.get(t): the contents of the list object stored for t.
Deps(dp, hp, t) == hp[dp[t]].val

\* The frame of the `run` command: its position (pc), its locals (tasks, the
\* position idx of the for loop in obj.tasks.items(), to_visit,
\* alredy_fetched_deps_for), and two histories: the calls it has made on
\* obj.flow, and how many of them it had made when the current turn of the
\* for loop began (since). Before any run there is no frame.
NoFrame == [pc |-> "none", tasks |-> {}, idx |-> 0, to_visit |-> <<>>,
            alredy_fetched_deps_for |-> {}, calls |-> <<>>, since |-> 0]

Init ==
    /\ implied_order \in BOOLEAN
    /\ argv_tasks \in SUBSET Names
    /\ no_dependencies \in BOOLEAN
    /\ tasks = <<>>
    /\ dependencies = <<>>
    /\ heap = <<>>
    /\ task_order = <<>>
    /\ depends_arg = <<>>
    /\ flow = <<>>
    /\ frame = NoFrame
    /\ phase = "script"
    /\ passes = 0

\* The list object `depends` stands for: a list literal the caller writes
\* here (a new object), a list object the caller passed before, or not a list.
DependsArgs == [kind : {"none"}] \cup [kind : {"new"}, val : DepLists]
               \cup [kind : {"ref"}, addr : {l \in DOMAIN heap : heap[l].caller}]

\* ImpliedAppend with `self.task_order[0]` in place of `self.task_order[-1]`.
ImpliedAppendFirst(hp, l, order, implied) ==
    IF implied /\ Len(order) > 0
    THEN [hp EXCEPT ![l].val = Append(@, order[1])]
    ELSE hp

\* ImpliedAppend without `if self.implied_order:`.
ImpliedAppendAlways(hp, l, order, implied) ==
    IF Len(order) > 0
    THEN [hp EXCEPT ![l].val = Append(@, order[Len(order)])]
    ELSE hp

\* `if self.implied_order: if len(self.task_order) > 0:` the name registered
\* last is appended to the list object at address l (in place: every task
\* that holds this object sees the new element).
ImpliedAppend(hp, l, order, implied) ==
    IF implied /\ Len(order) > 0
    THEN [hp EXCEPT ![l].val = Append(@, order[Len(order)])]
    ELSE hp

\* The names the next registered function may have: a name already used
\* (a re-registration) or the first unused one.
FnNames == {task_order[i] : i \in DOMAIN task_order}
           \cup {NameSeq[i] : i \in {j \in DOMAIN NameSeq :
                                        j = Cardinality({task_order[k] : k \in DOMAIN task_order}) + 1}}

\* MakeCLI.task(fn, depends): fn.__name__ = name.
Register(name, depends) ==
    /\ phase = "script"
    /\ Len(task_order) < MaxReg
    /\ LET t == Len(dependencies) + 1
           \* self.dependencies[t] = depends, or a new []
           l == IF depends.kind = "ref" THEN depends.addr ELSE Len(heap) + 1
           hp1 == CASE depends.kind = "ref" -> heap
                    [] depends.kind = "new" -> Append(heap, [val |-> depends.val, caller |-> TRUE])
                    [] OTHER -> Append(heap, [val |-> <<>>, caller |-> FALSE])
           hp2 == ImpliedAppend(hp1, l, task_order, implied_order)
       IN /\ dependencies' = Append(dependencies, l)
          /\ heap' = hp2
          /\ tasks' = DictSet(tasks, name, t)
          /\ task_order' = Append(task_order, name)
          /\ depends_arg' = Append(depends_arg,
                 CASE depends.kind = "ref" -> [list |-> TRUE, val |-> heap[depends.addr].val]
                   [] depends.kind = "new" -> [list |-> TRUE, val |-> depends.val]
                   [] OTHER -> [list |-> FALSE, val |-> <<>>])
    /\ UNCHANGED <<implied_order, cmdline, flow, frame, phase, passes>>

\* ---------------------------------------------------------- the run command
\* The calls the command makes on obj.flow.
AddTask(t) == [op |-> "add_task", task |-> t, upstream_tasks |-> <<>>]
SetDependencies(t, ups) == [op |-> "set_dependencies", task |-> t, upstream_tasks |-> ups]
FlowRun == [op |-> "run", task |-> 0, upstream_tasks |-> <<>>]

\* BeginFrame without `if len(tasks) == 0: tasks = obj.tasks.keys()`.
BeginFrameNoDefault(tk, argv) ==
    [pc |-> "for", tasks |-> argv, idx |-> 0, to_visit |-> <<>>,
     alredy_fetched_deps_for |-> {}, calls |-> <<>>, since |-> 0]

\* Entry of run(obj, tasks, no_dependencies): no names means every registered name.
BeginFrame(tk, argv) ==
    [pc |-> "for",
     tasks |-> IF Cardinality(argv) = 0 THEN Keys(tk) ELSE argv,
     idx |-> 0,
     to_visit |-> <<>>,
     alredy_fetched_deps_for |-> {},
     calls |-> <<>>,
     since |-> 0]

\* ForStep with `obj.flow.run()` indented into the body of the for loop.
ForStepRunInside(fr, tk) ==
    LET fr1 == IF fr.idx > 0 THEN [fr EXCEPT !.calls = Append(@, FlowRun)] ELSE fr
    IN IF fr.idx = Len(tk)
       THEN [fr1 EXCEPT !.pc = "done"]
       ELSE LET item == tk[fr.idx + 1]
            IN IF item.name \in fr.tasks
               THEN [fr1 EXCEPT !.idx = @ + 1,
                                !.to_visit = <<item.t>>,
                                !.alredy_fetched_deps_for = {},
                                !.since = Len(fr1.calls),
                                !.pc = "while"]
               ELSE [fr1 EXCEPT !.idx = @ + 1]

\* ForStep over the requested names, each looked up with obj.tasks[task_name]
\* (a requested name that is not registered raises KeyError).
ForStepLooksUp(fr, tk) ==
    IF fr.tasks \ Keys(tk) # {}
    THEN [fr EXCEPT !.pc = "KeyError"]
    ELSE IF fr.idx = Len(tk)
         THEN [fr EXCEPT !.pc = "run"]
         ELSE LET item == tk[fr.idx + 1]
              IN IF item.name \in fr.tasks
                 THEN [fr EXCEPT !.idx = @ + 1,
                                 !.to_visit = <<item.t>>,
                                 !.alredy_fetched_deps_for = {},
                                 !.since = Len(fr.calls),
                                 !.pc = "while"]
                 ELSE [fr EXCEPT !.idx = @ + 1]

\* ForStep without `if task_name in tasks:`: every registered task is visited.
ForStepVisitsAll(fr, tk) ==
    IF fr.idx = Len(tk)
    THEN [fr EXCEPT !.pc = "run"]
    ELSE [fr EXCEPT !.idx = @ + 1,
                    !.to_visit = <<tk[fr.idx + 1].t>>,
                    !.alredy_fetched_deps_for = {},
                    !.since = Len(fr.calls),
                    !.pc = "while"]

\* One turn of `for task_name, t in obj.tasks.items()`, up to the while loop.
ForStep(fr, tk) ==
    IF fr.idx = Len(tk)
    THEN [fr EXCEPT !.pc = "run"]
    ELSE LET item == tk[fr.idx + 1]
         IN IF item.name \in fr.tasks
            THEN [fr EXCEPT !.idx = @ + 1,
                            !.to_visit = <<item.t>>,
                            !.alredy_fetched_deps_for = {},
                            !.since = Len(fr.calls),
                            !.pc = "while"]
            ELSE [fr EXCEPT !.idx = @ + 1]

\* `if deps:` in place of `if deps and not no_dependencies:`.
ExpandsFlagIgnored(deps, nd) == deps # <<>>

\* `if deps and not no_dependencies:` the task's dependencies are expanded.
Expands(deps, nd) == deps # <<>> /\ ~nd

\* The guard `if current_t in alredy_fetched_deps_for: continue` left out.
NeverFetched(fr, t) == FALSE

\* `current_t in alredy_fetched_deps_for`
AlreadyFetched(fr, t) == t \in fr.alredy_fetched_deps_for

\* `to_visit.extend(dep_objs)` left out.
ExtendNothing(to_visit, dep_objs) == to_visit

\* `to_visit.extend(dep_objs)`
Extend(to_visit, dep_objs) == to_visit \o dep_objs

\* WhileStep with the KeyError of `obj.tasks[t_n]` caught and the task skipped.
WhileStepSwallows(fr, tk, dp, hp, nd) ==
    IF fr.to_visit = <<>>
    THEN [fr EXCEPT !.pc = "for"]
    ELSE LET current_t == fr.to_visit[Len(fr.to_visit)]
             rest == SubSeq(fr.to_visit, 1, Len(fr.to_visit) - 1)
             deps == Deps(dp, hp, current_t)
         IN IF deps # <<>> /\ ~nd
            THEN IF current_t \in fr.alredy_fetched_deps_for
                 THEN [fr EXCEPT !.to_visit = rest]
                 ELSE IF \E i \in DOMAIN deps : deps[i] \notin Keys(tk)
                      THEN [fr EXCEPT !.to_visit = rest,
                                      !.alredy_fetched_deps_for = @ \cup {current_t}]
                      ELSE LET dep_objs == [i \in DOMAIN deps |-> Lookup(tk, deps[i])]
                           IN [fr EXCEPT !.to_visit = rest \o dep_objs,
                                         !.alredy_fetched_deps_for = @ \cup {current_t},
                                         !.calls = Append(@, SetDependencies(current_t, dep_objs))]
            ELSE [fr EXCEPT !.to_visit = rest,
                            !.calls = Append(@, AddTask(current_t))]

\* One turn of `while to_visit`, or its exit back to the for loop.
WhileStep(fr, tk, dp, hp, nd) ==
    IF fr.to_visit = <<>>
    THEN [fr EXCEPT !.pc = "for"]
    ELSE LET current_t == fr.to_visit[Len(fr.to_visit)]
             rest == SubSeq(fr.to_visit, 1, Len(fr.to_visit) - 1)
             deps == Deps(dp, hp, current_t)
         IN IF Expands(deps, nd)
            THEN IF AlreadyFetched(fr, current_t)
                 THEN [fr EXCEPT !.to_visit = rest]
                 ELSE IF \E i \in DOMAIN deps : deps[i] \notin Keys(tk)
                      THEN \* obj.tasks[t_n] raises KeyError
                           [fr EXCEPT !.to_visit = rest,
                                      !.alredy_fetched_deps_for = @ \cup {current_t},
                                      !.pc = "KeyError"]
                      ELSE LET dep_objs == [i \in DOMAIN deps |-> Lookup(tk, deps[i])]
                           IN [fr EXCEPT !.to_visit = Extend(rest, dep_objs),
                                         !.alredy_fetched_deps_for = @ \cup {current_t},
                                         !.calls = Append(@, SetDependencies(current_t, dep_objs))]
            ELSE [fr EXCEPT !.to_visit = rest,
                            !.calls = Append(@, AddTask(current_t))]

\* obj.flow.run(), the last statement of the command.
RunStep(fr) == [fr EXCEPT !.pc = "done", !.calls = Append(@, FlowRun)]

\* The command has returned or raised.
Ended(fr) == fr.pc \in {"done", "KeyError"}

\* The command from any position to its end.
Step(fr, tk, dp, hp, nd) ==
    CASE fr.pc = "for" -> ForStep(fr, tk)
      [] fr.pc = "while" -> WhileStep(fr, tk, dp, hp, nd)
      [] fr.pc = "run" -> RunStep(fr)
      [] OTHER -> fr

RECURSIVE RunToEnd(_, _, _, _, _)
RunToEnd(fr, tk, dp, hp, nd) ==
    IF Ended(fr) THEN fr ELSE RunToEnd(Step(fr, tk, dp, hp, nd), tk, dp, hp, nd)

\* The calls of fr2 that fr1 had not made yet.
NewCalls(fr1, fr2) == SubSeq(fr2.calls, Len(fr1.calls) + 1, Len(fr2.calls))

\* MakeCLI.run() called by the script: _cli parses the command line and
\* enters the command.
ExplicitRun ==
    /\ phase = "script"
    /\ phase' = "explicit"
    /\ frame' = BeginFrame(tasks, argv_tasks)
    /\ passes' = passes + 1
    /\ UNCHANGED <<registry, cmdline, flow>>

\* The interpreter exits (the script ended, or the explicit run has returned
\* or raised): the hook registered by __init__ calls self.run.
AtExit ==
    /\ (phase = "script" \/ (phase = "explicit" /\ Ended(frame)))
    /\ phase' = "atexit"
    /\ frame' = BeginFrame(tasks, argv_tasks)
    /\ passes' = passes + 1
    /\ UNCHANGED <<registry, cmdline, flow>>

ForLoop ==
    /\ frame.pc = "for"
    /\ frame' = ForStep(frame, tasks)
    /\ UNCHANGED <<registry, cmdline, flow, phase, passes>>

\* WhileLoop with the dependency list consumed while it is resolved
\* (`while deps: dep_objs.append(obj.tasks[deps.pop()])`).
WhileLoopConsumesDeps ==
    /\ frame.pc = "while"
    /\ frame' = WhileStep(frame, tasks, dependencies, heap, no_dependencies)
    /\ flow' = flow \o NewCalls(frame, frame')
    /\ heap' = IF Len(frame'.calls) > Len(frame.calls)
                  /\ frame'.calls[Len(frame'.calls)].op = "set_dependencies"
               THEN [heap EXCEPT ![dependencies[frame'.calls[Len(frame'.calls)].task]].val = <<>>]
               ELSE heap
    /\ UNCHANGED <<implied_order, tasks, dependencies, task_order, depends_arg,
                   cmdline, phase, passes>>

WhileLoop ==
    /\ frame.pc = "while"
    /\ frame' = WhileStep(frame, tasks, dependencies, heap, no_dependencies)
    /\ flow' = flow \o NewCalls(frame, frame')
    /\ UNCHANGED <<registry, cmdline, phase, passes>>

RunFlow ==
    /\ frame.pc = "run"
    /\ frame' = RunStep(frame)
    /\ flow' = flow \o NewCalls(frame, frame')
    /\ UNCHANGED <<registry, cmdline, phase, passes>>

\* The hook's run has returned or raised: the process is gone.
Terminate ==
    /\ phase = "atexit"
    /\ Ended(frame)
    /\ phase' = "terminated"
    /\ UNCHANGED <<registry, cmdline, flow, frame, passes>>

Next ==
    \/ \E name \in FnNames : \E depends \in DependsArgs : Register(name, depends)
    \/ ExplicitRun
    \/ AtExit
    \/ ForLoop
    \/ WhileLoop
    \/ RunFlow
    \/ Terminate

Spec == Init /\ [][Next]_vars

\* The command's steps are taken as long as they are enabled, and the
\* interpreter does exit.
FairSpec == Spec /\ WF_vars(ForLoop) /\ WF_vars(WhileLoop) /\ WF_vars(RunFlow)
                 /\ WF_vars(AtExit) /\ WF_vars(Terminate)

TypeOK ==
    /\ phase \in {"script", "explicit", "atexit", "terminated"}
    /\ frame.pc \in {"none", "for", "while", "run", "done", "KeyError"}
    /\ Len(task_order) <= MaxReg
    /\ Len(dependencies) = Len(task_order)

\* ------------------------------------------------------- words of the claims
Range(f) == {f[i] : i \in DOMAIN f}

\* The task entities the registry holds now (the values of obj.tasks).
Entities == {tasks[i].t : i \in DOMAIN tasks}

\* The requested names: none given means every registered name.
Requested == IF argv_tasks = {} THEN Keys(tasks) ELSE argv_tasks

\* The entities of the requested names that are registered.
RequestedTasks == {Lookup(tasks, n) : n \in Requested \cap Keys(tasks)}

\* Every name in the dependency list of a registered task is registered.
AllDepsRegistered ==
    \A t \in Entities : Range(Deps(dependencies, heap, t)) \subseteq Keys(tasks)

\* The tasks named in t's dependency list, as entities.
Upstream(t) ==
    LET deps == Deps(dependencies, heap, t)
    IN [i \in DOMAIN deps |-> Lookup(tasks, deps[i])]

\* The tasks reachable from S by following dependency lists.
RECURSIVE Closure(_)
Closure(S) ==
    LET S2 == S \cup UNION {Range(Upstream(t)) : t \in S}
    IN IF S2 = S THEN S ELSE Closure(S2)

\* What the pass has declared so far.
CallsOf(fr, op) == {i \in DOMAIN fr.calls : fr.calls[i].op = op}
EdgeDeclarations(fr) ==
    {<<fr.calls[i].task, fr.calls[i].upstream_tasks>> : i \in CallsOf(fr, "set_dependencies")}
Standalone(fr) == {fr.calls[i].task : i \in CallsOf(fr, "add_task")}
Edges(fr) ==
    UNION {{<<u, fr.calls[i].task>> : u \in Range(fr.calls[i].upstream_tasks)} :
           i \in CallsOf(fr, "set_dependencies")}

\* The for loop of the pass is over: every requested task has been processed.
Resolved(fr) == fr.pc \in {"run", "done"}

\* ------------------------------------------------------------------ claims
\* C1: with the no-dependencies flag unset and every dependency name
\* registered, a pass does not abort, and once its for loop is over the edge
\* declarations made are exactly (t, the tasks named in t's dependency list)
\* for the tasks t reachable from a requested task whose dependency list is
\* not empty, and the standalone submissions are exactly the reachable tasks
\* whose dependency list is empty.
C1_TransitiveClosure ==
    (AllDepsRegistered /\ ~no_dependencies) =>
        /\ frame.pc # "KeyError"
        /\ Resolved(frame) =>
            /\ EdgeDeclarations(frame) =
                 {<<t, Upstream(t)>> : t \in {u \in Closure(RequestedTasks) :
                                                Deps(dependencies, heap, u) # <<>>}}
            /\ Standalone(frame) =
                 {u \in Closure(RequestedTasks) : Deps(dependencies, heap, u) = <<>>}

\* C1 witness: a finished pass that submitted a task two dependency steps
\* away from the only requested task, with an edge declaration and a
\* standalone submission.
C1_Witness ==
    /\ frame.pc = "done" /\ ~no_dependencies /\ AllDepsRegistered
    /\ Cardinality(RequestedTasks) = 1
    /\ \E t \in RequestedTasks : \E u \in Range(Upstream(t)) :
          /\ u # t
          /\ \E w \in Range(Upstream(u)) :
                w \notin {t, u} /\ w \notin Range(Upstream(t)) /\ w \in Standalone(frame)
    /\ Cardinality(EdgeDeclarations(frame)) >= 2

\* C2 (the claim as stated): a pass that aborts on an unregistered dependency
\* name has made no call on the flow.
C2_AllOrNothing == frame.pc = "KeyError" => frame.calls = <<>>

\* C4: with the no-dependencies flag set a pass never aborts, declares no
\* edge, and submits standalone exactly the requested registered tasks, one
\* call each.
C4_NoDependencies ==
    no_dependencies =>
        /\ frame.pc # "KeyError"
        /\ EdgeDeclarations(frame) = {}
        /\ Standalone(frame) \subseteq RequestedTasks
        /\ Resolved(frame) =>
            /\ Standalone(frame) = RequestedTasks
            /\ Cardinality(CallsOf(frame, "add_task")) = Cardinality(RequestedTasks)

\* C4 witness: a finished pass with the flag set that submitted a task whose
\* dependency list is not empty, while another registered task was not
\* requested.
C4_Witness ==
    /\ frame.pc = "done" /\ no_dependencies
    /\ \E t \in Standalone(frame) : Deps(dependencies, heap, t) # <<>>
    /\ Entities \ RequestedTasks # {}

\* t lies on a dependency cycle.
OnCycle(t) == t \in Closure(Range(Upstream(t)))

\* The set_dependencies calls made in the current turn of the for loop.
ExpandedThisTurn(fr) == {i \in CallsOf(fr, "set_dependencies") : i > fr.since}

\* C3: with every dependency name registered, cycles or not, a pass that has
\* started ends normally (the traversal stack empties for every requested
\* task); no task is expanded twice in one turn of the for loop; and once
\* the for loop is over, every dependency edge of a reachable task that lies
\* on a cycle has been declared.
C3_CyclesTerminate ==
    /\ (frame.pc \in {"for", "while"} /\ AllDepsRegistered) ~> (frame.pc = "done")
    /\ [](\A i, j \in ExpandedThisTurn(frame) :
             frame.calls[i].task = frame.calls[j].task => i = j)
    /\ []((Resolved(frame) /\ ~no_dependencies /\ AllDepsRegistered) =>
             \A t \in Closure(RequestedTasks) :
                 OnCycle(t) => \A u \in Range(Upstream(t)) : <<u, t>> \in Edges(frame))

\* C3 witness: a finished pass over two tasks that depend on each other,
\* one of them requested; both edges of the cycle were declared.
C3_Witness ==
    /\ frame.pc = "done" /\ ~no_dependencies /\ AllDepsRegistered
    /\ Cardinality(RequestedTasks) = 1
    /\ \E t \in RequestedTasks : \E u \in Entities :
          /\ u # t
          /\ u \in Range(Upstream(t)) /\ t \in Range(Upstream(u))
          /\ {<<u, t>>, <<t, u>>} \subseteq Edges(frame)

\* No registration passed a `depends` list.
NoExplicitDepends == \A l \in DOMAIN heap : ~heap[l].caller

\* Every registration used a new name.
DistinctNames == Cardinality(Keys(tasks)) = Len(task_order)

\* C5: with implied ordering, no explicit dependencies and distinct names,
\* requesting only the k-th registered task declares exactly the edges
\* between consecutive tasks 1..k (each task's upstream is the one task
\* registered right before it) and submits the first task standalone.
C5_ImpliedChain ==
    \A k \in DOMAIN task_order :
        (/\ implied_order /\ ~no_dependencies
         /\ NoExplicitDepends /\ DistinctNames
         /\ argv_tasks = {task_order[k]}
         /\ Resolved(frame)) =>
            /\ Edges(frame) = {<<i, i + 1>> : i \in 1..(k - 1)}
            /\ EdgeDeclarations(frame) = {<<i + 1, <<i>>>> : i \in 1..(k - 1)}
            /\ Standalone(frame) = {1}

\* C5 witness: three tasks registered in a chain, the third requested, the
\* pass finished with the two edges declared.
C5_Witness ==
    /\ implied_order /\ ~no_dependencies /\ NoExplicitDepends /\ DistinctNames
    /\ Len(task_order) = 3
    /\ argv_tasks = {task_order[3]}
    /\ frame.pc = "done"
    /\ Edges(frame) = {<<1, 2>>, <<2, 3>>}

\* C6: a pass with no requested name ends as the command run on the full set
\* of registered names ends: the same outcome, standalone submissions and
\* edge declarations, for either value of the no-dependencies flag.
C6_EmptyMeansAll ==
    (Ended(frame) /\ argv_tasks = {}) =>
        LET full == RunToEnd(BeginFrame(tasks, Keys(tasks)),
                             tasks, dependencies, heap, no_dependencies)
        IN /\ frame.pc = full.pc
           /\ Standalone(frame) = Standalone(full)
           /\ EdgeDeclarations(frame) = EdgeDeclarations(full)

\* C6 witness: a finished pass with no requested name over at least two
\* registered names that made a standalone submission and an edge declaration.
C6_Witness ==
    /\ frame.pc = "done" /\ argv_tasks = {}
    /\ Cardinality(Keys(tasks)) >= 2
    /\ Standalone(frame) # {} /\ EdgeDeclarations(frame) # {}

\* The number of the last registration of name n.
LastRegistration(n) ==
    CHOOSE t \in DOMAIN task_order :
        /\ task_order[t] = n
        /\ \A u \in DOMAIN task_order : task_order[u] = n => u <= t

\* C7: the registry holds each name once, bound to the entity of the last
\* registration of that name; a pass submits only such entities, as tasks
\* and as upstream tasks, and declares for a task the dependency list of its
\* own (last) registration.
C7_Overwrite ==
    /\ \A i, j \in DOMAIN tasks : tasks[i].name = tasks[j].name => i = j
    /\ Keys(tasks) = Range(task_order)
    /\ \A i \in DOMAIN tasks : tasks[i].t = LastRegistration(tasks[i].name)
    /\ \A i \in DOMAIN frame.calls :
          frame.calls[i].op # "run" =>
              /\ frame.calls[i].task \in Entities
              /\ Range(frame.calls[i].upstream_tasks) \subseteq Entities
              /\ frame.calls[i].op = "set_dependencies" =>
                    frame.calls[i].upstream_tasks = Upstream(frame.calls[i].task)

\* C7 witness: a name registered twice with different dependency lists; the
\* finished pass declared the second entity with the second list and named
\* it as upstream of another task.
C7_Witness ==
    /\ frame.pc = "done"
    /\ \E t1, t2 \in DOMAIN task_order :
          /\ t1 < t2 /\ task_order[t1] = task_order[t2]
          /\ Deps(dependencies, heap, t1) # Deps(dependencies, heap, t2)
          /\ \E e \in EdgeDeclarations(frame) : e[1] = t2 /\ e[2] = Upstream(t2)
          /\ \E e \in EdgeDeclarations(frame) : e[1] # t2 /\ t2 \in Range(e[2])

\* C8 (the claim as stated): N distinctly named tasks registered without
\* explicit dependencies and without implied ordering give N standalone
\* submissions and no edge declaration, whatever subset of them is requested.
C8_NStandalone ==
    (/\ ~implied_order /\ NoExplicitDepends /\ DistinctNames
     /\ argv_tasks \subseteq Keys(tasks)
     /\ Resolved(frame)) =>
        /\ EdgeDeclarations(frame) = {}
        /\ Cardinality(CallsOf(frame, "add_task")) = Len(task_order)

\* C8 (amended): N tasks registered without explicit dependencies and without
\* implied ordering give no edge declaration and one standalone submission
\* per requested registered task: N of them when the names are distinct and
\* no name or every name is requested.
C8_StandalonePerRequested ==
    (~implied_order /\ NoExplicitDepends /\ Resolved(frame)) =>
        /\ EdgeDeclarations(frame) = {}
        /\ Standalone(frame) = RequestedTasks
        /\ Cardinality(CallsOf(frame, "add_task")) = Cardinality(RequestedTasks)
        /\ (DistinctNames /\ Keys(tasks) \subseteq Requested) =>
              Cardinality(CallsOf(frame, "add_task")) = Len(task_order)

\* C8 witness: three tasks registered that way, two of them requested, the
\* pass finished.
C8_Witness ==
    /\ ~implied_order /\ NoExplicitDepends /\ DistinctNames
    /\ Len(task_order) = 3
    /\ Cardinality(argv_tasks) = 2
    /\ frame.pc = "done"
    /\ Cardinality(Standalone(frame)) = 2

\* C9: a pass that has ended normally has called the flow's run exactly
\* once, as its last call; a pass that has not (yet) ended normally has not
\* called it.
C9_ExecuteOnceLast ==
    /\ frame.pc = "done" => CallsOf(frame, "run") = {Len(frame.calls)}
    /\ frame.pc # "done" => CallsOf(frame, "run") = {}

\* C9 witness: a finished pass whose run call follows an edge declaration
\* and a standalone submission.
C9_Witness ==
    /\ frame.pc = "done"
    /\ CallsOf(frame, "set_dependencies") # {}
    /\ CallsOf(frame, "add_task") # {}
    /\ frame.calls[Len(frame.calls)].op = "run"

\* C10 (the claim as stated): in the lifetime of one process the command is
\* entered at most once and the flow is run at most once.
C10_OnePass ==
    /\ passes <= 1
    /\ Cardinality({i \in DOMAIN flow : flow[i].op = "run"}) <= 1

\* The task the while loop pops next.
NextPopped(fr) == fr.to_visit[Len(fr.to_visit)]

\* The pass is about to expand a task whose dependency list names an
\* unregistered task.
ExpandsUnresolved ==
    /\ frame.pc = "while" /\ frame.to_visit # <<>> /\ ~no_dependencies
    /\ Range(Deps(dependencies, heap, NextPopped(frame))) \ Keys(tasks) # {}

\* C11: the step that expands a task whose dependency list names an
\* unregistered task raises KeyError without making a call on the flow; an
\* aborted pass pops and submits nothing more (its frame stays as it is until
\* the exit hook begins another pass), and it has not run the flow.
C11_AbortsOnUnresolved ==
    /\ [][ExpandsUnresolved =>
            /\ frame'.pc = "KeyError"
            /\ frame'.calls = frame.calls]_vars
    /\ [][frame.pc = "KeyError" =>
            \/ frame' = frame /\ flow' = flow
            \/ passes' = passes + 1 /\ frame'.calls = <<>>]_vars
    /\ [](frame.pc = "KeyError" => CallsOf(frame, "run") = {})

\* C11 witness: a pass aborted after it had made a call, with a task still
\* on the traversal stack and a registered name not yet reached by the for
\* loop.
C11_Witness ==
    /\ frame.pc = "KeyError"
    /\ frame.calls # <<>>
    /\ frame.to_visit # <<>>
    /\ frame.idx < Len(tasks)

\* The dependency list C12 expects for the t-th registered task.
ExpectedDeps(t) ==
    IF implied_order /\ t > 1
    THEN Append(depends_arg[t].val, task_order[t - 1])
    ELSE depends_arg[t].val

\* C12 (the claim as stated): after registrations with distinct names, the
\* dependency list of the first task is its `depends` list (or empty), and
\* that of every later task is its `depends` list, followed under implied
\* ordering by the one name registered right before it.
C12_DependencyLists ==
    DistinctNames =>
        \A t \in DOMAIN dependencies : Deps(dependencies, heap, t) = ExpectedDeps(t)

\* C13 (the claim as stated): a registration leaves the caller's `depends`
\* list as it was passed and leaves the dependency list of every task
\* registered before as it was.
C13_StoresCopy ==
    [][Len(dependencies') = Len(dependencies) + 1 =>
          /\ \A l \in DOMAIN heap' :
                (heap'[l].caller /\ l = dependencies'[Len(dependencies')]) =>
                    heap'[l].val = depends_arg'[Len(depends_arg')].val
          /\ \A t \in DOMAIN dependencies :
                Deps(dependencies', heap', t) = Deps(dependencies, heap, t)]_vars

\* The set_dependencies calls the pass has made for task t.
Expansions(fr, t) == {i \in CallsOf(fr, "set_dependencies") : fr.calls[i].task = t}

\* The turns of the for loop that began a traversal so far.
TurnsBegun(fr) == {i \in 1..fr.idx : tasks[i].name \in fr.tasks}

\* C14 (the claim as stated): in one pass no task is expanded twice.
C14_OncePerPass ==
    \A t \in DOMAIN dependencies : Cardinality(Expansions(frame, t)) <= 1

\* C14 (amended): a task is expanded at most once in each turn of the for
\* loop (the traversal begun from one requested task), hence at most once
\* per requested task processed so far; between two expansions of a task the
\* pass has made the call of a requested task (the first of a later turn).
C14_OncePerTurn ==
    \A t \in DOMAIN dependencies :
        /\ Cardinality(Expansions(frame, t) \cap ExpandedThisTurn(frame)) <= 1
        /\ Cardinality(Expansions(frame, t)) <= Cardinality(TurnsBegun(frame))
        /\ \A i, j \in Expansions(frame, t) :
              i < j => \E k \in CallsOf(frame, "set_dependencies") \cup CallsOf(frame, "add_task") :
                          i < k /\ k <= j /\ frame.calls[k].task \in RequestedTasks

\* C14 witness: a finished pass that expanded one task in two turns of the
\* for loop: the task was requested and is a dependency of another
\* requested task.
C14_Witness ==
    /\ frame.pc = "done"
    /\ \E t \in RequestedTasks :
          /\ Cardinality(Expansions(frame, t)) = 2
          /\ \E e \in EdgeDeclarations(frame) : e[1] # t /\ t \in Range(e[2])

\* ------------------------------------------------- any order of the stack
\* The sequence with its k-th element moved to the end, where pop() takes it.
MoveLast(seq, k) ==
    SubSeq(seq, 1, k - 1) \o SubSeq(seq, k + 1, Len(seq)) \o <<seq[k]>>

\* One turn of the while loop that takes the k-th pending task instead of
\* the last one.
WhileStepAt(fr, k, tk, dp, hp, nd) ==
    WhileStep([fr EXCEPT !.to_visit = MoveLast(@, k)], tk, dp, hp, nd)

WhileLoopAny ==
    /\ frame.pc = "while"
    /\ \E k \in DOMAIN frame.to_visit \cup {Len(frame.to_visit)} :
          frame' = IF k = 0
                   THEN WhileStep(frame, tasks, dependencies, heap, no_dependencies)
                   ELSE WhileStepAt(frame, k, tasks, dependencies, heap, no_dependencies)
    /\ flow' = flow \o NewCalls(frame, frame')
    /\ UNCHANGED <<registry, cmdline, phase, passes>>

NextAny ==
    \/ \E name \in FnNames : \E depends \in DependsArgs : Register(name, depends)
    \/ ExplicitRun
    \/ AtExit
    \/ ForLoop
    \/ WhileLoopAny
    \/ RunFlow
    \/ Terminate

\* The program with the pop order of the traversal stack left open.
AnySpec == Init /\ [][NextAny]_vars

PassStep == frame' # frame \/ phase' # phase

\* C16: no step of a resolution pass, from its entry to its return or its
\* KeyError, changes the registry: obj.tasks, every dependency list
\* (obj.dependencies and the list objects it holds) and obj.task_order stay
\* as they are, for every requested set and either value of the flag.
C16_RegistryUnchanged ==
    [][PassStep =>
          /\ tasks' = tasks
          /\ dependencies' = dependencies
          /\ heap' = heap
          /\ task_order' = task_order]_vars

\* C16 witness: a pass has ended, normally or by KeyError, after it made an
\* edge declaration over a registry of three registrations.
C16_Witness ==
    /\ Ended(frame)
    /\ Len(task_order) = 3
    /\ CallsOf(frame, "set_dependencies") # {}

\* What obj.flow has been given since its construction, as sets.
FlowStandalone == {flow[i].task : i \in {j \in DOMAIN flow : flow[j].op = "add_task"}}
FlowEdgeDeclarations ==
    {<<flow[i].task, flow[i].upstream_tasks>> :
        i \in {j \in DOMAIN flow : flow[j].op = "set_dependencies"}}

\* Number of times the command is entered on one registry before the
\* process exits.
MaxInvocations == 2

\* The command entered again on the same registry with other task names,
\* after it has returned or raised: a caller that catches the SystemExit of
\* MakeCLI.run() and calls it again, or a test that invokes the command twice.
Invoke ==
    /\ phase = "explicit"
    /\ Ended(frame)
    /\ passes < MaxInvocations
    /\ argv_tasks' \in SUBSET Names
    /\ frame' = BeginFrame(tasks, argv_tasks')
    /\ passes' = passes + 1
    /\ UNCHANGED <<registry, no_dependencies, flow, phase>>

NextRerun ==
    \/ \E name \in FnNames : \E depends \in DependsArgs : Register(name, depends)
    \/ ExplicitRun
    \/ Invoke
    \/ ForLoop
    \/ WhileLoop
    \/ RunFlow

\* The process up to its exit, the command entered up to MaxInvocations times.
RerunSpec == Init /\ [][NextRerun]_vars

\* C17 (the claim as stated): when the second pass on a registry runs the
\* flow, the tasks and edge declarations the flow holds are those submitted
\* during that second pass, which are those its command line gives as a
\* first pass on the registry.
C17_SecondPassAlone ==
    (passes = 2 /\ frame.pc = "done") =>
        LET first == RunToEnd(BeginFrame(tasks, argv_tasks),
                              tasks, dependencies, heap, no_dependencies)
        IN /\ FlowStandalone = Standalone(frame)
           /\ FlowEdgeDeclarations = EdgeDeclarations(frame)
           /\ FlowStandalone = Standalone(first)
           /\ FlowEdgeDeclarations = EdgeDeclarations(first)

\* C18 (the claim as stated): with implied ordering and no explicit
\* dependencies the registered tasks form a linear chain: each has at most
\* one upstream task, none depends on itself, none lies on a cycle.
C18_LinearChain ==
    (implied_order /\ NoExplicitDepends) =>
        \A t \in Entities :
            /\ Len(Deps(dependencies, heap, t)) <= 1
            /\ t \notin Range(Upstream(t))
            /\ ~OnCycle(t)

\* The requested names that are not registered.
UnknownRequested == argv_tasks \ Keys(tasks)

\* C19: a requested name that is not registered changes nothing: the pass
\* ends as the command run on the registered requested names alone ends,
\* with the same calls and the same outcome; when no requested name is
\* registered it ends normally with the run of the flow as its only call.
C19_UnknownRequestedIgnored ==
    (UnknownRequested # {} /\ Ended(frame)) =>
        IF argv_tasks \cap Keys(tasks) = {}
        THEN frame.pc = "done" /\ frame.calls = <<FlowRun>>
        ELSE LET known == RunToEnd(BeginFrame(tasks, argv_tasks \cap Keys(tasks)),
                                   tasks, dependencies, heap, no_dependencies)
             IN /\ frame.pc = known.pc
                /\ frame.calls = known.calls
                /\ frame.pc = "done" => Cardinality(CallsOf(frame, "run")) = 1

\* C19 witness: a pass requested with a registered and an unregistered name
\* has ended normally after a submission, with another registered task left
\* out.
C19_Witness ==
    /\ frame.pc = "done"
    /\ UnknownRequested # {}
    /\ argv_tasks \cap Keys(tasks) # {}
    /\ Len(frame.calls) >= 2
    /\ Keys(tasks) \ argv_tasks # {}

\* The dependency list of t names a task that is not registered.
Unresolved(t) == Range(Deps(dependencies, heap, t)) \ Keys(tasks) # {}

\* The tasks reachable from S by following the registered names of
\* dependency lists.
RECURSIVE ClosureKnown(_)
ClosureKnown(S) ==
    LET S2 == S \cup {Lookup(tasks, n) :
                        n \in UNION {Range(Deps(dependencies, heap, t)) : t \in S}
                              \cap Keys(tasks)}
    IN IF S2 = S THEN S ELSE ClosureKnown(S2)

\* No unregistered dependency name is in the way of the pass.
Latent ==
    \/ no_dependencies
    \/ \A t \in ClosureKnown(RequestedTasks) : ~Unresolved(t)

\* C20: a pass raises KeyError only with the flag unset and after it began
\* to expand a task whose dependency list names an unregistered task; when
\* the flag is set, or no such task is requested or reachable from a
\* requested task, a started pass does not abort, ends normally and has run
\* the flow, whatever the other registered tasks name.
C20_LatentError ==
    /\ [](frame.pc = "KeyError" =>
             /\ ~no_dependencies
             /\ \E t \in frame.alredy_fetched_deps_for \cap ClosureKnown(RequestedTasks) :
                   Unresolved(t))
    /\ []((Latent /\ Ended(frame)) =>
             frame.pc = "done" /\ frame.calls[Len(frame.calls)] = FlowRun)
    /\ (Latent /\ frame.pc \in {"for", "while"}) ~> (frame.pc = "done")

\* C20 witness: a pass ended normally with the flag unset and a submission
\* made, while a registered task that is neither requested nor reachable
\* names an unregistered task.
C20_Witness ==
    /\ frame.pc = "done" /\ ~no_dependencies
    /\ Len(frame.calls) >= 2
    /\ \E t \in Entities \ ClosureKnown(RequestedTasks) : Unresolved(t)

====
